---- MODULE Spec2Model ----
\* Model of container-check.py: the two-phase orchestration of the main
\* script (audit of every container of the inventory through a process pool,
\* diff against the available rpms, optional yum update + commit of the stale
\* containers through the same pool) and of its two pool workers.
EXTENDS Integers, Sequences, FiniteSets, Bags, TLC

\* ---------------------------------------------------------------- bounds
MaxContainers == 2     \* longest container inventory (lines of opts.containers)
MaxRpms       == 2     \* most lines printed by one `rpm -qa`
MaxProcs      == 2     \* largest opts.process_count

\* ------------------------------------------------------------ input sets
Containers  == {"c1", "c2"}           \* container identifiers
Packages    == {"p1", "p2"}           \* package identifiers printed by rpm -qa
BasePackages == {"p1"}                \* packages the yum repositories may offer
RetCodes    == {0, 1}                 \* exit statuses of a docker subprocess
NoContainer == "-"                    \* the diff loop is between two containers

SeqsUpTo(S, n) == UNION {[1..m -> S] : m \in 0..n}

Prefixes(s) == {SubSeq(s, 1, m) : m \in 0..Len(s)}

Range(s) == {s[i] : i \in DOMAIN s}

\* str.split("\n") of an output made of newline-terminated lines: the lines,
\* then the empty string that follows the last newline.
Split(lines) == lines \o <<"">>

\* str(name)
Str(n) == ToString(n)

\* 'yum-update-%s' % name
ContainerName(name) == "yum-update-" \o name

\* d[k] = v on a dict
DictSet(d, k, v) == [x \in (DOMAIN d) \cup {k} |-> IF x = k THEN v ELSE d[x]]

EmptyDict == [x \in {} |-> <<>>]

VARIABLES
    available_rpms,        \* keys of the dict returned by get_available_rpms()
    docker_containers,     \* the inventory, in file order
    installed,             \* what rpm -qa prints in each image (environment)
    update,                \* opts.update
    process_count,         \* int(opts.process_count)
    pc,                    \* position of the main script
    success,
    audit_tasks,           \* pool tasks of the first p.map, by input index
    container_rpms,
    fold_idx,              \* position of a `for ... in ret` loop
    todo,                  \* keys a `for ... in dict` loop has not visited yet
    diff_cur, diff_idx,    \* container and rpm index of the diff loops
    container_update_list,
    process_map,           \* the [container, str(name)] list of the update
    name,                  \* the transaction name counter
    update_tasks,          \* pool tasks of the second p.map, by input index
    commits,               \* successful docker commits per image (environment)
    exit_code

vars == <<available_rpms, docker_containers, installed, update, process_count,
          pc, success, audit_tasks, container_rpms, fold_idx, todo,
          diff_cur, diff_idx, container_update_list, process_map, name,
          update_tasks, commits, exit_code>>

inputs == <<available_rpms, docker_containers, installed, update, process_count>>

\* ------------------------------------------------------------------ Init
\* State once lines 148-168 have run: options parsed, available rpms loaded,
\* inventory read, pool created and the first p.map submitted.
Init ==
    /\ available_rpms \in SUBSET BasePackages
    /\ docker_containers \in SeqsUpTo(Containers, MaxContainers)
    /\ installed \in [Containers -> SeqsUpTo(Packages, MaxRpms)]
    /\ \A c \in Containers \ Range(docker_containers) : installed[c] = <<>>
    /\ update \in BOOLEAN
    /\ process_count \in 1..MaxProcs
    /\ pc = "audit_map"
    /\ success = TRUE
    /\ audit_tasks = [i \in DOMAIN docker_containers |->
                        [st |-> "queued", container |-> docker_containers[i],
                         returncode |-> 0, rpms |-> <<>>]]
    /\ container_rpms = EmptyDict
    /\ fold_idx = 1
    /\ todo = {}
    /\ diff_cur = NoContainer
    /\ diff_idx = 1
    /\ container_update_list = EmptyDict
    /\ process_map = <<>>
    /\ name = 0
    /\ update_tasks = <<>>
    /\ commits = [c \in Containers |-> 0]
    /\ exit_code = -1          \* no exit status yet

\* ------------------------------------------------------------- the pool
\* multiprocessing.Pool(n).map: tasks leave the queue in input order, at most
\* n are in a worker at a time, map returns when all of them have returned.
Busy(tasks) == {i \in DOMAIN tasks : tasks[i].st \notin {"queued", "done"}}

NextQueued(tasks, i) ==
    /\ tasks[i].st = "queued"
    /\ \A j \in DOMAIN tasks : j < i => tasks[j].st # "queued"

PoolFree_Unbounded(tasks) == TRUE

PoolFree(tasks) == Cardinality(Busy(tasks)) < process_count

AllDone_NoWait(tasks) == TRUE

AllDone(tasks) == \A i \in DOMAIN tasks : tasks[i].st = "done"

\* ------------------------------------------------------- the audit phase
\* populate_container_rpms_list: what the worker returns for the exit status
\* and the standard output of `docker run --rm <container> rpm -qa`.
populate_container_rpms_list(container, returncode, cmd_stdout) ==
    [returncode |-> returncode, container |-> container,
     rpms |-> Split(cmd_stdout)]

\* A pool process takes the next audit task and starts the docker command.
AuditStart(i) ==
    /\ pc = "audit_map"
    /\ NextQueued(audit_tasks, i)
    /\ PoolFree(audit_tasks)
    /\ audit_tasks' = [audit_tasks EXCEPT ![i].st = "running"]
    /\ UNCHANGED <<inputs, pc, success, container_rpms, fold_idx, todo,
                   diff_cur, diff_idx, container_update_list, process_map,
                   name, update_tasks, commits, exit_code>>

\* The docker command ends: exit status 0 with the full package list, or a
\* nonzero status with whatever part of the list was printed.
AuditReturn(i) ==
    /\ pc = "audit_map"
    /\ audit_tasks[i].st = "running"
    /\ \E returncode \in RetCodes :
       \E cmd_stdout \in (IF returncode = 0
                          THEN {installed[audit_tasks[i].container]}
                          ELSE Prefixes(installed[audit_tasks[i].container])) :
          LET r == populate_container_rpms_list(audit_tasks[i].container,
                                                returncode, cmd_stdout)
          IN audit_tasks' = [audit_tasks EXCEPT
                               ![i] = [st |-> "done",
                                       container |-> r.container,
                                       returncode |-> r.returncode,
                                       rpms |-> r.rpms]]
    /\ UNCHANGED <<inputs, pc, success, container_rpms, fold_idx, todo,
                   diff_cur, diff_idx, container_update_list, process_map,
                   name, update_tasks, commits, exit_code>>

\* p.map returns the results in input order once every task has returned.
AuditJoin ==
    /\ pc = "audit_map"
    /\ AllDone(audit_tasks)
    /\ pc' = "audit_fold"
    /\ fold_idx' = 1
    /\ UNCHANGED <<inputs, success, audit_tasks, container_rpms, todo,
                   diff_cur, diff_idx, container_update_list, process_map,
                   name, update_tasks, commits, exit_code>>

\* `if returncode != 0: success = False` of the audit loop
AuditSuccess_LastWins(flag, returncode) == returncode = 0

AuditSuccess_Ignored(flag, returncode) == flag

AuditSuccess(flag, returncode) == IF returncode # 0 THEN FALSE ELSE flag

\* One iteration of `for returncode, container, rpms in ret`.
AuditFold ==
    /\ pc = "audit_fold"
    /\ fold_idx <= Len(audit_tasks)
    /\ LET r == audit_tasks[fold_idx]
       IN /\ container_rpms' = DictSet(container_rpms, r.container, r.rpms)
          /\ success' = AuditSuccess(success, r.returncode)
    /\ fold_idx' = fold_idx + 1
    /\ UNCHANGED <<inputs, pc, audit_tasks, todo, diff_cur, diff_idx,
                   container_update_list, process_map, name, update_tasks,
                   commits, exit_code>>

AuditLoopOver_FailFast == fold_idx > Len(audit_tasks) \/ ~success

\* `for returncode, container, rpms in ret` has visited every result: the
\* statements after the loop are reached.
AuditLoopOver == fold_idx > Len(audit_tasks)

\* `if not success: sys.exit(1)`
AuditFailed ==
    /\ pc = "audit_fold"
    /\ AuditLoopOver
    /\ ~success
    /\ pc' = "exited"
    /\ exit_code' = 1
    /\ UNCHANGED <<inputs, success, audit_tasks, container_rpms, fold_idx,
                   todo, diff_cur, diff_idx, container_update_list,
                   process_map, name, update_tasks, commits>>

\* `container_update_list = {}` and entry into `for container in container_rpms`
DiffBegin ==
    /\ pc = "audit_fold"
    /\ AuditLoopOver
    /\ success
    /\ pc' = "diff"
    /\ container_update_list' = EmptyDict
    /\ todo' = DOMAIN container_rpms
    /\ diff_cur' = NoContainer
    /\ diff_idx' = 1
    /\ UNCHANGED <<inputs, success, audit_tasks, container_rpms, fold_idx,
                   process_map, name, update_tasks, commits, exit_code>>

\* --------------------------------------------------------------- the diff
\* The dict loop moves on to a container it has not visited yet (a dict
\* yields its keys in no particular order).
DiffContainer ==
    /\ pc = "diff"
    /\ diff_cur = NoContainer
    /\ \E container \in todo :
         /\ todo' = todo \ {container}
         /\ diff_cur' = IF Len(container_rpms[container]) = 0
                        THEN NoContainer ELSE container
    /\ diff_idx' = 1
    /\ UNCHANGED <<inputs, pc, success, audit_tasks, container_rpms, fold_idx,
                   container_update_list, process_map, name, update_tasks,
                   commits, exit_code>>

DiffBody_BlankKept(list, container, rpm) ==
    IF rpm \notin available_rpms
    THEN LET l == IF container \notin DOMAIN list
                  THEN DictSet(list, container, <<>>) ELSE list
         IN DictSet(l, container, Append(l[container], rpm))
    ELSE list

DiffBody_LastOnly(list, container, rpm) ==
    IF Len(rpm) > 0 /\ rpm \notin available_rpms
    THEN DictSet(list, container, <<rpm>>)
    ELSE list

DiffBody_KeyFirst(list, container, rpm) ==
    LET l == IF container \notin DOMAIN list
             THEN DictSet(list, container, <<>>) ELSE list
    IN IF Len(rpm) > 0 /\ rpm \notin available_rpms
       THEN DictSet(l, container, Append(l[container], rpm))
       ELSE l

\* The body of `for rpm in container_rpms[container]` on one rpm.
DiffBody(list, container, rpm) ==
    IF Len(rpm) > 0 /\ rpm \notin available_rpms
    THEN LET l == IF container \notin DOMAIN list
                  THEN DictSet(list, container, <<>>) ELSE list
         IN DictSet(l, container, Append(l[container], rpm))
    ELSE list

DiffRpm ==
    /\ pc = "diff"
    /\ diff_cur # NoContainer
    /\ container_update_list' =
           DiffBody(container_update_list, diff_cur,
                    container_rpms[diff_cur][diff_idx])
    /\ IF diff_idx < Len(container_rpms[diff_cur])
       THEN diff_idx' = diff_idx + 1 /\ diff_cur' = diff_cur
       ELSE diff_idx' = 1 /\ diff_cur' = NoContainer
    /\ UNCHANGED <<inputs, pc, success, audit_tasks, container_rpms, fold_idx,
                   todo, process_map, name, update_tasks, commits, exit_code>>

UpdateRequested_Always == TRUE

\* `if opts.update:`
UpdateRequested == update

\* Both loops are over and opts.update is false: the script runs off its end.
NoUpdate ==
    /\ pc = "diff"
    /\ diff_cur = NoContainer
    /\ todo = {}
    /\ ~UpdateRequested
    /\ pc' = "exited"
    /\ exit_code' = 0
    /\ UNCHANGED <<inputs, success, audit_tasks, container_rpms, fold_idx,
                   todo, diff_cur, diff_idx, container_update_list,
                   process_map, name, update_tasks, commits>>

\* ------------------------------------------------------ the update phase
\* `if opts.update:` taken: process_map = [], name = 0 and entry into
\* `for container in container_update_list`.
BuildBegin ==
    /\ pc = "diff"
    /\ diff_cur = NoContainer
    /\ todo = {}
    /\ UpdateRequested
    /\ pc' = "build"
    /\ process_map' = <<>>
    /\ name' = 0
    /\ UNCHANGED <<inputs, success, audit_tasks, container_rpms, fold_idx,
                   todo, diff_cur, diff_idx, container_update_list,
                   update_tasks, commits, exit_code>>

\* Number of entries of process_map for each container that has one.
Dispatched ==
    [c \in {process_map[i][1] : i \in DOMAIN process_map} |->
        Cardinality({i \in DOMAIN process_map : process_map[i][1] = c})]

UpdateKeys_AllAudited == [c \in DOMAIN container_rpms |-> 1]

UpdateKeys_PerListing ==
    [c \in DOMAIN container_update_list |->
        Cardinality({i \in DOMAIN docker_containers : docker_containers[i] = c})]

\* What `for container in container_update_list` yields, as a bag: each key
\* of the dict, once.
UpdateKeys == [c \in DOMAIN container_update_list |-> 1]

\* The keys the loop has still to yield.
BuildRemaining == UpdateKeys (-) Dispatched

NextName_Same(n) == n

\* name += 1
NextName(n) == n + 1

\* One iteration: process_map.append([container, str(name)]); name += 1
BuildEntry ==
    /\ pc = "build"
    /\ \E container \in BagToSet(BuildRemaining) :
         process_map' = Append(process_map, <<container, Str(name)>>)
    /\ name' = NextName(name)
    /\ UNCHANGED <<inputs, pc, success, audit_tasks, container_rpms, fold_idx,
                   todo, diff_cur, diff_idx, container_update_list,
                   update_tasks, commits, exit_code>>

\* The loop is over: p.map(yum_update_container, process_map) is submitted.
UpdateSubmit ==
    /\ pc = "build"
    /\ BuildRemaining = EmptyBag
    /\ pc' = "update_map"
    /\ update_tasks' = [i \in DOMAIN process_map |->
                          [st |-> "queued",
                           container |-> process_map[i][1],
                           name |-> process_map[i][2],
                           returncode |-> 0,
                           ops |-> <<>>]]
    /\ UNCHANGED <<inputs, success, audit_tasks, container_rpms, fold_idx,
                   todo, diff_cur, diff_idx, container_update_list,
                   process_map, name, commits, exit_code>>

\* One docker call of an update worker, as it appears in the worker's trace.
Op(op, container_name, res) == [op |-> op, name |-> container_name, res |-> res]

\* 'Error response from daemon: No such container: {}\n'.format(name)
NoSuchContainer(container_name) ==
    "Error response from daemon: No such container: " \o container_name \o "\n"

\* What `docker rm name` may print on its standard error: nothing, the
\* "No such container" message, some other error.
RmErrs(container_name) ==
    {"", NoSuchContainer(container_name), "Error response from daemon\n"}

\* rm_container(name): `docker rm name`; its standard error is logged unless
\* it is empty or the "No such container" message, and nothing is returned.
rm_container(ops, container_name, cmd_stderr) ==
    Append(ops, Op("rm", container_name,
                   IF cmd_stderr # "" /\ cmd_stderr # NoSuchContainer(container_name)
                   THEN "logged" ELSE "quiet"))

UpdateFrame == UNCHANGED <<inputs, pc, success, audit_tasks, container_rpms,
                           fold_idx, todo, diff_cur, diff_idx,
                           container_update_list, process_map, name,
                           exit_code>>

\* A pool process takes the next update task: yum_update_container begins.
UpdateStart(i) ==
    /\ pc = "update_map"
    /\ NextQueued(update_tasks, i)
    /\ PoolFree(update_tasks)
    /\ update_tasks' = [update_tasks EXCEPT ![i].st = "preclean"]
    /\ UNCHANGED commits
    /\ UpdateFrame

AfterPreClean_AbortOnError(container_name, cmd_stderr) ==
    IF cmd_stderr # "" /\ cmd_stderr # NoSuchContainer(container_name)
    THEN "done" ELSE "update"

\* Where yum_update_container goes after the first rm_container: nothing of
\* the removal is looked at, the docker run command is built and started.
AfterPreClean(container_name, cmd_stderr) == "update"

\* rm_container(container_name) before the update.
PreClean(i) ==
    /\ pc = "update_map"
    /\ update_tasks[i].st = "preclean"
    /\ \E cmd_stderr \in RmErrs(ContainerName(update_tasks[i].name)) :
         update_tasks' = [update_tasks EXCEPT
            ![i].ops = rm_container(@, ContainerName(update_tasks[i].name),
                                    cmd_stderr),
            ![i].st = AfterPreClean(ContainerName(update_tasks[i].name),
                                    cmd_stderr)]
    /\ UNCHANGED commits
    /\ UpdateFrame

AfterYum_AlwaysCommit(returncode) == "commit"

AfterYum_Retry(returncode) == IF returncode # 0 THEN "update" ELSE "commit"

\* Where yum_update_container goes once `docker run ... yum -y update` has
\* ended with the given status.
AfterYum(returncode) == IF returncode # 0 THEN "cleanup_failed" ELSE "commit"

\* docker run --name container_name container yum -y update
YumUpdate(i) ==
    /\ pc = "update_map"
    /\ update_tasks[i].st = "update"
    /\ \E returncode \in RetCodes :
         update_tasks' = [update_tasks EXCEPT
            ![i].ops = Append(@, Op("run", ContainerName(update_tasks[i].name),
                                    ToString(returncode))),
            ![i].returncode = returncode,
            ![i].st = AfterYum(returncode)]
    /\ UNCHANGED commits
    /\ UpdateFrame

ReturnedStatus_RmError(returncode, container_name, cmd_stderr) ==
    IF cmd_stderr # "" /\ cmd_stderr # NoSuchContainer(container_name)
    THEN 1 ELSE returncode

\* `return (subproc.returncode, container)` after rm_container: rm_container
\* has its own `subproc` and returns nothing, so the status returned is the
\* one of the worker's last update or commit process.
ReturnedStatus(returncode, container_name, cmd_stderr) == returncode

FailedCleanup_Skipped(ops, container_name, cmd_stderr) == ops

\* The rm_container(container_name) of the `if subproc.returncode != 0` branch.
FailedCleanup(ops, container_name, cmd_stderr) ==
    rm_container(ops, container_name, cmd_stderr)

\* The update failed: rm_container(container_name) and
\* return (subproc.returncode, container)
CleanupFailed(i) ==
    /\ pc = "update_map"
    /\ update_tasks[i].st = "cleanup_failed"
    /\ \E cmd_stderr \in RmErrs(ContainerName(update_tasks[i].name)) :
         update_tasks' = [update_tasks EXCEPT
            ![i].ops = FailedCleanup(@, ContainerName(update_tasks[i].name),
                                     cmd_stderr),
            ![i].returncode =
                ReturnedStatus(@, ContainerName(update_tasks[i].name),
                               cmd_stderr),
            ![i].st = "done"]
    /\ UNCHANGED commits
    /\ UpdateFrame

CommitStatus_YumStatus(yum_returncode, returncode) == yum_returncode

\* `subproc` is rebound to the docker commit process: the status the worker
\* returns is the commit's, not the update's.
CommitStatus(yum_returncode, returncode) == returncode

\* docker commit container_name container: status 0 replaces the image.
Commit(i) ==
    /\ pc = "update_map"
    /\ update_tasks[i].st = "commit"
    /\ \E returncode \in RetCodes :
         /\ update_tasks' = [update_tasks EXCEPT
               ![i].ops = Append(@, Op("commit",
                                       ContainerName(update_tasks[i].name),
                                       ToString(returncode))),
               ![i].returncode = CommitStatus(@, returncode),
               ![i].st = "cleanup"]
         /\ commits' = IF returncode = 0
                       THEN [commits EXCEPT ![update_tasks[i].container] = @ + 1]
                       ELSE commits
    /\ UpdateFrame

\* rm_container(container_name) and return (subproc.returncode, container)
Cleanup(i) ==
    /\ pc = "update_map"
    /\ update_tasks[i].st = "cleanup"
    /\ \E cmd_stderr \in RmErrs(ContainerName(update_tasks[i].name)) :
         update_tasks' = [update_tasks EXCEPT
            ![i].ops = rm_container(@, ContainerName(update_tasks[i].name),
                                    cmd_stderr),
            ![i].returncode =
                ReturnedStatus(@, ContainerName(update_tasks[i].name),
                               cmd_stderr),
            ![i].st = "done"]
    /\ UNCHANGED commits
    /\ UpdateFrame

\* p.map returns the results in input order once every task has returned.
UpdateJoin ==
    /\ pc = "update_map"
    /\ AllDone(update_tasks)
    /\ pc' = "update_fold"
    /\ fold_idx' = 1
    /\ UNCHANGED <<inputs, success, audit_tasks, container_rpms, todo,
                   diff_cur, diff_idx, container_update_list, process_map,
                   name, update_tasks, commits, exit_code>>

\* `if returncode != 0: success = False` of the update loop
UpdateSuccess_Ignored(flag, returncode) == flag

UpdateSuccess(flag, returncode) == IF returncode # 0 THEN FALSE ELSE flag

\* One iteration of `for returncode, container in ret`.
UpdateFold ==
    /\ pc = "update_fold"
    /\ fold_idx <= Len(update_tasks)
    /\ success' = UpdateSuccess(success, update_tasks[fold_idx].returncode)
    /\ fold_idx' = fold_idx + 1
    /\ UNCHANGED <<inputs, pc, audit_tasks, container_rpms, todo, diff_cur,
                   diff_idx, container_update_list, process_map, name,
                   update_tasks, commits, exit_code>>

\* `if not success: sys.exit(1)`, else the script runs off its end.
UpdateExit ==
    /\ pc = "update_fold"
    /\ fold_idx > Len(update_tasks)
    /\ pc' = "exited"
    /\ exit_code' = IF ~success THEN 1 ELSE 0
    /\ UNCHANGED <<inputs, success, audit_tasks, container_rpms, fold_idx,
                   todo, diff_cur, diff_idx, container_update_list,
                   process_map, name, update_tasks, commits>>

\* ------------------------------------------------------------ the system
Next ==
    \/ \E i \in DOMAIN audit_tasks : AuditStart(i)
    \/ \E i \in DOMAIN audit_tasks : AuditReturn(i)
    \/ AuditJoin
    \/ AuditFold
    \/ AuditFailed
    \/ DiffBegin
    \/ DiffContainer
    \/ DiffRpm
    \/ NoUpdate
    \/ BuildBegin
    \/ BuildEntry
    \/ UpdateSubmit
    \/ \E i \in DOMAIN update_tasks : UpdateStart(i)
    \/ \E i \in DOMAIN update_tasks : PreClean(i)
    \/ \E i \in DOMAIN update_tasks : YumUpdate(i)
    \/ \E i \in DOMAIN update_tasks : CleanupFailed(i)
    \/ \E i \in DOMAIN update_tasks : Commit(i)
    \/ \E i \in DOMAIN update_tasks : Cleanup(i)
    \/ UpdateJoin
    \/ UpdateFold
    \/ UpdateExit

Spec == Init /\ [][Next]_vars

\* The runs whose images report at most one package, against the full
\* baseline: progress does not depend on what the package lists hold.
LiveInit ==
    /\ Init
    /\ available_rpms = BasePackages
    /\ \A c \in Containers : Len(installed[c]) <= 1

\* The main script and the pool processes keep running, and every docker
\* command the script waits for ends: a step that can be taken is taken.
FairSpec == LiveInit /\ [][Next]_vars /\ WF_vars(Next)

TypeOK ==
    /\ pc \in {"audit_map", "audit_fold", "diff", "build", "update_map",
               "update_fold", "exited"}
    /\ success \in BOOLEAN
    /\ exit_code \in {-1, 0, 1}
    /\ DOMAIN container_rpms \subseteq Containers
    /\ DOMAIN container_update_list \subseteq Containers

\* ------------------------------------------------------ claim vocabulary
Exited == pc = "exited"

AuditFailedSome ==
    \E i \in DOMAIN audit_tasks :
        audit_tasks[i].st = "done" /\ audit_tasks[i].returncode # 0

UpdateFailedSome ==
    \E i \in DOMAIN update_tasks :
        update_tasks[i].st = "done" /\ update_tasks[i].returncode # 0

\* Stale containers no update worker has successfully updated and committed.
StaleRemaining ==
    {c \in DOMAIN container_update_list :
        ~ \E i \in DOMAIN update_tasks :
              /\ update_tasks[i].container = c
              /\ update_tasks[i].st = "done"
              /\ update_tasks[i].returncode = 0}

\* The diff loop has finished with container c.
Diffed(c) ==
    /\ c \in DOMAIN container_rpms
    /\ \/ pc \in {"build", "update_map", "update_fold"}
       \/ pc = "exited" /\ ~AuditFailedSome
       \/ pc = "diff" /\ c \notin todo /\ c # diff_cur

DiffComplete == \A c \in DOMAIN container_rpms : Diffed(c)

\* The StaleReport entry of c, empty when c is not a key.
Entry(c) == IF c \in DOMAIN container_update_list
            THEN container_update_list[c] ELSE <<>>

NotAvailable(p) == p \notin available_rpms

\* ---------------------------------------------------------------- C1
\* C1 as stated: an exit status 0 means that no stale container remains and
\* nothing failed; a failed inspection, a stale container that remains or a
\* failed update gives exit status 1.
C1_ExitStatusAsStated ==
    Exited =>
      /\ exit_code = 0 =>
            StaleRemaining = {} /\ ~AuditFailedSome /\ ~UpdateFailedSome
      /\ (AuditFailedSome \/ StaleRemaining # {} \/ UpdateFailedSome) =>
            exit_code = 1

\* C1 amended: the exit status is 1 exactly when an inspection returned
\* nonzero or a dispatched update worker returned nonzero, and 0 otherwise,
\* also when stale containers were found and no update was requested.
C1_ExitStatus ==
    Exited =>
      /\ exit_code \in {0, 1}
      /\ exit_code = 1 <=> (AuditFailedSome \/ UpdateFailedSome)

C1_Witness ==
    /\ Exited
    /\ ~update
    /\ DOMAIN container_update_list # {}
    /\ exit_code = 0

\* ---------------------------------------------------------------- C2
\* C2: when an audit worker returned nonzero, or update was requested and an
\* update worker returned nonzero, the process exits nonzero.
C2_WorkerFailureExitsNonzero ==
    (Exited /\ (AuditFailedSome \/ (update /\ UpdateFailedSome)))
        => exit_code # 0

C2_Witness ==
    /\ Exited
    /\ update
    /\ \E i, j \in DOMAIN update_tasks :
          update_tasks[i].returncode # 0 /\ update_tasks[j].returncode = 0

\* ---------------------------------------------------------------- C3
\* C3: once the diff of a container is computed, its StaleReport entry is its
\* installed package list filtered to the packages that are not available,
\* in the same order and with the same multiplicity.
C3_OrderPreservingFilter ==
    \A c \in Containers :
        Diffed(c) => Entry(c) = SelectSeq(installed[c], NotAvailable)

C3_Witness ==
    \E c \in Containers :
        /\ Diffed(c)
        /\ Len(Entry(c)) = 2
        /\ Entry(c)[1] # Entry(c)[2]
        /\ Len(container_rpms[c]) > Len(Entry(c))

\* ---------------------------------------------------------------- C4
\* C4: in every state every key of the StaleReport maps to a non-empty
\* sequence, and a container none of whose packages is stale is not a key.
C4_SparseStaleReport ==
    \A c \in DOMAIN container_update_list :
        /\ Len(container_update_list[c]) > 0
        /\ \E k \in DOMAIN container_rpms[c] :
              container_rpms[c][k] # "" /\ NotAvailable(container_rpms[c][k])

C4_Witness ==
    /\ pc = "diff"
    /\ \E c, d \in DOMAIN container_rpms :
          /\ Diffed(c) /\ c \notin DOMAIN container_update_list
          /\ Len(installed[c]) > 0
          /\ d \in DOMAIN container_update_list

\* ---------------------------------------------------------------- C5
\* C5: no two update workers of a run have the same transaction name, and no
\* docker call of one worker names the transient container of another.
C5_UniqueTransactionNames ==
    /\ \A i, j \in DOMAIN process_map :
          i # j => process_map[i][2] # process_map[j][2]
    /\ \A i, j \in DOMAIN update_tasks :
          i # j =>
            /\ ContainerName(update_tasks[i].name)
                  # ContainerName(update_tasks[j].name)
            /\ \A a \in DOMAIN update_tasks[i].ops :
               \A b \in DOMAIN update_tasks[j].ops :
                  update_tasks[i].ops[a].name # update_tasks[j].ops[b].name

C5_Witness ==
    \E i, j \in DOMAIN update_tasks :
        /\ i # j
        /\ update_tasks[i].st = "commit"
        /\ update_tasks[j].st = "cleanup_failed"

\* ------------------------------------------- vocabulary of worker traces
\* Positions of the trace of update task i that hold a call of the given kind.
Calls(i, op) ==
    {k \in DOMAIN update_tasks[i].ops : update_tasks[i].ops[k].op = op}

YumFailed(i) ==
    \E k \in Calls(i, "run") : update_tasks[i].ops[k].res # "0"

YumSucceeded(i) ==
    \E k \in Calls(i, "run") : update_tasks[i].ops[k].res = "0"

CommitFailed(i) ==
    \E k \in Calls(i, "commit") : update_tasks[i].ops[k].res # "0"

CommitSucceeded(i) ==
    \E k \in Calls(i, "commit") : update_tasks[i].ops[k].res = "0"

Returned(i) == update_tasks[i].st = "done"

\* A remove of the task's own transient container that follows its update step.
CleanedUp(i) ==
    \E r \in Calls(i, "rm") :
        /\ update_tasks[i].ops[r].name = ContainerName(update_tasks[i].name)
        /\ \E u \in Calls(i, "run") :
              /\ u < r
              /\ update_tasks[i].ops[u].name = update_tasks[i].ops[r].name

\* ---------------------------------------------------------------- C6
\* C6: an update worker that has returned has attempted, after its update
\* step, a remove of its own transient container, whatever the steps did.
C6_CleanupOnEveryPath ==
    \A i \in DOMAIN update_tasks : Returned(i) => CleanedUp(i)

C6_Witness ==
    \E i, j \in DOMAIN update_tasks :
        /\ Returned(i) /\ YumFailed(i) /\ CleanedUp(i)
        /\ Returned(j) /\ CommitFailed(j) /\ CleanedUp(j)

\* ---------------------------------------------------------------- C7
\* C7: a worker whose update step exited nonzero never calls commit, leaves
\* the image as it was, and once returned has removed the transient name and
\* reports a nonzero status; a commit only follows an update that exited 0.
C7_NoCommitAfterFailedUpdate ==
    \A i \in DOMAIN update_tasks :
        /\ YumFailed(i) =>
              /\ Calls(i, "commit") = {}
              /\ commits[update_tasks[i].container] = 0
              /\ Returned(i) =>
                    update_tasks[i].returncode # 0 /\ CleanedUp(i)
        /\ \A k \in Calls(i, "commit") :
              \E u \in Calls(i, "run") :
                  u < k /\ update_tasks[i].ops[u].res = "0"

C7_Witness ==
    \E i, j \in DOMAIN update_tasks :
        /\ Returned(i) /\ YumFailed(i)
        /\ Calls(j, "commit") # {}

\* ---------------------------------------------------------------- C8
\* C8: a returned worker reports status 0 exactly when both its update step
\* and its commit exited 0; when the commit failed the worker has still
\* removed the transient container, last of all, and reports nonzero.
C8_SuccessIffUpdateAndCommit ==
    \A i \in DOMAIN update_tasks :
        Returned(i) =>
          /\ update_tasks[i].returncode = 0
                <=> (YumSucceeded(i) /\ CommitSucceeded(i))
          /\ CommitFailed(i) =>
                /\ update_tasks[i].returncode # 0
                /\ update_tasks[i].ops[Len(update_tasks[i].ops)].op = "rm"
                /\ \A k \in Calls(i, "commit") : k < Len(update_tasks[i].ops)

C8_Witness ==
    \E i, j \in DOMAIN update_tasks :
        /\ Returned(i) /\ YumSucceeded(i) /\ CommitFailed(i)
        /\ Returned(j) /\ update_tasks[j].returncode = 0

\* ---------------------------------------------------------------- C9
\* C9: while and after a phase's results are folded, every task of the phase
\* has returned and the success flag is the AND of the outcomes folded so far
\* (of all of them at the end of the loop): a failure hides no sibling.
FoldedAudit ==
    IF pc = "audit_fold" THEN 1..(fold_idx - 1) ELSE DOMAIN audit_tasks

FoldedUpdate ==
    IF pc = "update_fold" THEN 1..(fold_idx - 1) ELSE DOMAIN update_tasks

UpdatePhaseOver ==
    pc = "update_fold" \/ (Exited /\ update /\ ~AuditFailedSome)

C9_SuccessIsAndOfOutcomes ==
    /\ pc \notin {"audit_map", "build", "update_map"} /\ ~UpdatePhaseOver =>
          /\ \A i \in DOMAIN audit_tasks : audit_tasks[i].st = "done"
          /\ success <=>
                \A i \in FoldedAudit : audit_tasks[i].returncode = 0
    /\ UpdatePhaseOver =>
          /\ \A i \in DOMAIN update_tasks :
                Returned(i) /\ Calls(i, "run") # {}
          /\ success <=>
                \A i \in FoldedUpdate : update_tasks[i].returncode = 0

C9_Witness ==
    /\ Exited
    /\ Len(update_tasks) = 2
    /\ update_tasks[1].returncode # 0
    /\ update_tasks[2].returncode = 0
    /\ CommitSucceeded(2)
    /\ ~success

\* ---------------------------------------------------------------- C10
\* C10: no update worker exists, let alone issues a docker call, before every
\* audit worker has returned and the StaleReport is complete; the update
\* results are folded and the exit status decided only after every update
\* worker has returned.
C10_PhaseBarrier ==
    /\ (update_tasks # <<>> \/ pc \in {"update_map", "update_fold"}) =>
          /\ \A i \in DOMAIN audit_tasks : audit_tasks[i].st = "done"
          /\ \A c \in DOMAIN container_rpms :
                /\ Diffed(c)
                /\ Entry(c) = SelectSeq(container_rpms[c],
                                LAMBDA p : p # "" /\ NotAvailable(p))
          /\ DOMAIN container_rpms = Range(docker_containers)
    /\ (pc = "update_fold" \/ (Exited /\ update_tasks # <<>>)) =>
          \A i \in DOMAIN update_tasks : update_tasks[i].st = "done"

C10_Witness ==
    /\ pc = "update_map"
    /\ Len(audit_tasks) = 2
    /\ \E i \in DOMAIN update_tasks : Calls(i, "rm") # {}

\* ---------------------------------------------------------------- C11
\* The StaleReport as a function of the baseline, the inventory and the
\* package list each image reports, and of nothing else.
ExpectedReport ==
    [c \in {d \in Range(docker_containers) :
                SelectSeq(installed[d], NotAvailable) # <<>>}
       |-> SelectSeq(installed[c], NotAvailable)]

\* C11: whatever order the audit workers complete in and the dicts are
\* walked in, a completed audit of the same baseline and the same reported
\* package lists gives the same StaleReport, keys and sequences: two audits
\* of unchanged inputs therefore agree.
C11_AuditIsDeterministic ==
    DiffComplete /\ pc # "audit_fold" /\ ~AuditFailedSome /\ pc # "audit_map"
        => container_update_list = ExpectedReport

C11_Witness ==
    /\ DiffComplete
    /\ pc = "diff"
    /\ process_count = 2
    /\ Len(docker_containers) = 2
    /\ DOMAIN container_update_list = Containers
    /\ \E c \in Containers : Len(container_update_list[c]) = 2

\* ---------------------------------------------------------------- C12
\* Position of the last update or commit call of the trace of task i.
LastStep(i) ==
    CHOOSE k \in Calls(i, "run") \cup Calls(i, "commit") :
        \A j \in Calls(i, "run") \cup Calls(i, "commit") : j <= k

RmLogged(i) ==
    {k \in Calls(i, "rm") : update_tasks[i].ops[k].res = "logged"}

\* C12: the status a worker returns is the exit status of its last update or
\* commit step, whether its removes failed (and were logged) or not.
C12_RemoveNeverChangesOutcome ==
    \A i \in DOMAIN update_tasks :
        Returned(i) /\ Calls(i, "run") # {} =>
            ToString(update_tasks[i].returncode)
                = update_tasks[i].ops[LastStep(i)].res

C12_Witness ==
    \E i, j \in DOMAIN update_tasks :
        /\ Returned(i) /\ Cardinality(RmLogged(i)) = 2
        /\ update_tasks[i].returncode = 0
        /\ Returned(j) /\ RmLogged(j) = {}
        /\ update_tasks[j].returncode = 0

\* ---------------------------------------------------------------- C13
\* C13: the first docker call of every update worker is the remove of its own
\* transient name; after it, logged or not, the worker is at its update step,
\* which can run, and the second call of its trace is that update step.
C13_PreCleanNeverFails ==
    \A i \in DOMAIN update_tasks :
        LET ops == update_tasks[i].ops
        IN /\ update_tasks[i].st \notin {"queued", "preclean"} => Len(ops) >= 1
           /\ Len(ops) >= 1 =>
                 /\ ops[1].op = "rm"
                 /\ ops[1].name = ContainerName(update_tasks[i].name)
           /\ Len(ops) = 1 =>
                 /\ update_tasks[i].st = "update"
                 /\ ENABLED YumUpdate(i)
           /\ Len(ops) >= 2 => ops[2].op = "run"

C13_Witness ==
    \E i, j \in DOMAIN update_tasks :
        /\ Len(update_tasks[i].ops) >= 2
        /\ update_tasks[i].ops[1].res = "logged"
        /\ update_tasks[i].ops[2].op = "run"
        /\ Len(update_tasks[j].ops) >= 2
        /\ update_tasks[j].ops[1].res = "quiet"
        /\ update_tasks[j].ops[2].op = "run"

\* ---------------------------------------------------------------- C14
\* The calls of the trace of task i, by kind.
Kinds(i) == [k \in DOMAIN update_tasks[i].ops |-> update_tasks[i].ops[k].op]

\* The trace of task i is the one its state allows on the path
\* Idle -> PreCleaning -> Updating -> {Committing -> Cleaned, Cleaned}.
OnPath(i) ==
    LET st == update_tasks[i].st
    IN /\ st \in {"queued", "preclean"} => Kinds(i) = <<>>
       /\ st = "update" => Kinds(i) = <<"rm">>
       /\ st = "commit" => Kinds(i) = <<"rm", "run">> /\ YumSucceeded(i)
       /\ st = "cleanup_failed" => Kinds(i) = <<"rm", "run">> /\ YumFailed(i)
       /\ st = "cleanup" => Kinds(i) = <<"rm", "run", "commit">>
       /\ st = "done" =>
             \/ Kinds(i) = <<"rm", "run", "rm">> /\ YumFailed(i)
             \/ Kinds(i) = <<"rm", "run", "commit", "rm">> /\ YumSucceeded(i)

\* C14: every update worker that has started returns (when every docker
\* command ends), after a trace that follows the path, with one update step
\* and at most one commit.
C14_TerminatesWithoutRetry ==
    /\ [](\A i \in DOMAIN update_tasks :
            /\ OnPath(i)
            /\ Cardinality(Calls(i, "run")) <= 1
            /\ Cardinality(Calls(i, "commit")) <= 1
            /\ Returned(i) => Cardinality(Calls(i, "run")) = 1)
    /\ \A i \in 1..MaxContainers :
          (i \in DOMAIN update_tasks /\ update_tasks[i].st = "preclean")
             ~> (i \in DOMAIN update_tasks /\ Returned(i))

C14_Witness ==
    \E i, j \in DOMAIN update_tasks :
        /\ Kinds(i) = <<"rm", "run", "rm">> /\ Returned(i)
        /\ Kinds(j) = <<"rm", "run", "commit", "rm">> /\ Returned(j)

\* ---------------------------------------------------------------- C15
\* Update tasks whose container is c.
WorkersOf(c) == {i \in DOMAIN update_tasks : update_tasks[i].container = c}

UpdateDispatched == pc \in {"update_map", "update_fold"} \/ (Exited /\ update
                                                          /\ ~AuditFailedSome)

\* C15: every update worker is for a key of the StaleReport; once the update
\* is dispatched every key has exactly one worker; an image that is not a
\* key is never committed, and its name is in no worker's docker calls.
C15_UpdateOnlyStale ==
    /\ \A i \in DOMAIN update_tasks :
          update_tasks[i].container \in DOMAIN container_update_list
    /\ \A i \in DOMAIN process_map :
          process_map[i][1] \in DOMAIN container_update_list
    /\ UpdateDispatched =>
          \A c \in DOMAIN container_update_list :
              Cardinality(WorkersOf(c)) = 1
    /\ \A c \in Containers \ DOMAIN container_update_list :
          commits[c] = 0 /\ WorkersOf(c) = {}

C15_Witness ==
    /\ UpdateDispatched
    /\ Len(update_tasks) = 1
    /\ Cardinality(DOMAIN container_rpms) = 2
    /\ \E c \in DOMAIN container_update_list : commits[c] = 1
    /\ \E c \in DOMAIN container_rpms \ DOMAIN container_update_list :
          Len(installed[c]) > 0 /\ commits[c] = 0

\* ---------------------------------------------------------------- C16
\* The last task of the inventory that audited container c.
LastListing(c) ==
    CHOOSE i \in DOMAIN audit_tasks :
        /\ audit_tasks[i].container = c
        /\ \A j \in DOMAIN audit_tasks :
              audit_tasks[j].container = c => j <= i

\* C16: when the run exits because an audit worker returned nonzero, the
\* audit is marked failed and the registry nevertheless holds a record for
\* every container of the inventory, the one its (last) worker returned,
\* partial output of a failed worker included.
C16_AuditFoldIsAdditive ==
    Exited /\ AuditFailedSome =>
        /\ ~success
        /\ DOMAIN container_rpms = Range(docker_containers)
        /\ \A c \in Range(docker_containers) :
              container_rpms[c] = audit_tasks[LastListing(c)].rpms

C16_Witness ==
    /\ Exited
    /\ Len(audit_tasks) = 2
    /\ audit_tasks[1].container # audit_tasks[2].container
    /\ audit_tasks[1].returncode # 0
    /\ Len(installed[audit_tasks[1].container]) = 2
    /\ container_rpms[audit_tasks[1].container]
          = <<installed[audit_tasks[1].container][1], "">>
    /\ audit_tasks[2].returncode = 0
    /\ container_rpms[audit_tasks[2].container]
          = Split(installed[audit_tasks[2].container])

\* ---------------------------------------------------------------- C17
\* C17: in both phases at most process_count tasks are in a worker at any
\* time, and (when every docker command ends) every task submitted to the
\* pool is run to its end, also when there are more tasks than processes.
C17_BoundedPoolRunsEveryTask ==
    /\ [](/\ Cardinality(Busy(audit_tasks)) <= process_count
          /\ Cardinality(Busy(update_tasks)) <= process_count)
    /\ \A i \in 1..MaxContainers :
          /\ (i \in DOMAIN audit_tasks /\ audit_tasks[i].st = "queued")
                ~> (i \in DOMAIN audit_tasks /\ audit_tasks[i].st = "done")
          /\ (i \in DOMAIN update_tasks /\ update_tasks[i].st = "queued")
                ~> (i \in DOMAIN update_tasks /\ update_tasks[i].st = "done")

C17_Witness ==
    /\ process_count = 1
    /\ Len(audit_tasks) = 2
    /\ Len(update_tasks) = 2
    /\ update_tasks[1].st = "done"
    /\ Cardinality(Busy(update_tasks)) = 1
    /\ update_tasks[2].st = "cleanup"

\* ---------------------------------------------------------------- C18
\* C18: once an audit worker has returned nonzero, the run never gets past
\* the audit fold: it exits with status 1, with no StaleReport, no update
\* worker and no committed image, whatever opts.update says.
C18_FailedAuditStopsTheRun ==
    AuditFailedSome =>
        /\ pc \in {"audit_map", "audit_fold", "exited"}
        /\ Exited => exit_code = 1
        /\ container_update_list = EmptyDict
        /\ process_map = <<>>
        /\ update_tasks = <<>>
        /\ \A c \in Containers : commits[c] = 0

C18_Witness ==
    /\ Exited
    /\ update
    /\ exit_code = 1
    /\ \E i, j \in DOMAIN audit_tasks :
          /\ audit_tasks[i].returncode # 0
          /\ audit_tasks[j].returncode = 0
          /\ \E k \in DOMAIN audit_tasks[j].rpms :
                audit_tasks[j].rpms[k] # "" /\ NotAvailable(audit_tasks[j].rpms[k])

\* ---------------------------------------------------------------- C19
\* C19: every listing of the inventory has its own audit task, but no two
\* update workers of a run are for the same container identifier, so an
\* image is committed at most once in a run.
C19_OneUpdateWorkerPerImage ==
    /\ Len(audit_tasks) = Len(docker_containers)
    /\ \A i \in DOMAIN audit_tasks :
          audit_tasks[i].container = docker_containers[i]
    /\ \A i, j \in DOMAIN update_tasks :
          i # j => update_tasks[i].container # update_tasks[j].container
    /\ \A i, j \in DOMAIN process_map :
          i # j => process_map[i][1] # process_map[j][1]
    /\ \A c \in Containers : commits[c] <= 1

C19_Witness ==
    /\ Len(docker_containers) = 2
    /\ docker_containers[1] = docker_containers[2]
    /\ \A i \in DOMAIN audit_tasks : audit_tasks[i].st = "done"
    /\ Len(update_tasks) = 1
    /\ update_tasks[1].container = docker_containers[1]
    /\ Returned(1)
    /\ commits[docker_containers[1]] = 1

\* ---------------------------------------------------------------- C20
\* C20: a run without --update never builds a process_map for the update and
\* has no update worker, hence no docker rm, no named docker run and no
\* docker commit: every image keeps the state the audit found it in, whatever
\* the StaleReport holds.
C20_NoUpdateLeavesImagesAlone ==
    ~update =>
        /\ pc \notin {"build", "update_map", "update_fold"}
        /\ process_map = <<>>
        /\ update_tasks = <<>>
        /\ name = 0
        /\ \A c \in Containers : commits[c] = 0

C20_Witness ==
    /\ Exited
    /\ ~update
    /\ Cardinality(DOMAIN container_update_list) = 2
    /\ update_tasks = <<>>
    /\ \A c \in Containers : commits[c] = 0

====
